---- MODULE Spec2Model ----
(***************************************************************************)
(* The asset-transfer chaincode (chaincode-javascript/lib/assetTransfer.js) *)
(* and the client application that drives it, over a Fabric world state.    *)
(*                                                                          *)
(* A JavaScript object is the sequence of its members in insertion order.   *)
(* A stored value / JSON text is a sequence of tokens.  Strings are compared *)
(* by their UTF-16 code units, as Array.prototype.sort and the state        *)
(* database do.                                                             *)
(*                                                                          *)
(* Spec runs the transactions one at a time (main() and other clients),     *)
(* SpecLenient adds values of other origin to the store, SpecEnc builds and  *)
(* encodes one record again, SpecConc interleaves the handlers at their      *)
(* awaits over a store without conflict detection.                           *)
(***************************************************************************)
EXTENDS Naturals, Sequences, FiniteSets

VARIABLES ws,      \* world state: key -> stored bytes (token sequence)
          op,      \* the last transaction: [name, args]
          err,     \* the message of the Error it threw, <<>> if none
          ret,     \* what it returned
          writes,  \* the putState / deleteState calls it made, in order
          rewritten, \* the keys it left with bytes they did not hold before it
          pc,      \* how many calls of main() have run, while main() is the only client
          others,  \* TRUE once a transaction of another client has run
          logical,   \* a write of the contract taken as the logical write to repeat
          object,    \* the same record being built again, fields in any order
          persisted, \* the bytes that second execution hands to putState
          txs,       \* the transactions in flight at once, each with its position
          lastWrite  \* the latest putState / deleteState of a transaction in flight

vars == <<ws, op, err, ret, writes, rewritten, pc, others, logical, object,
          persisted, txs, lastWrite>>

(* ------------------------------ strings -------------------------------- *)

\* the strings that are ever compared: object keys and world-state keys
Compared ==
    { "Client", "Cone", "Flavor", "ID", "Size", "Value", "docType",
      "icecream1", "icecream2", "icecream3", "icecream4", "icecream5",
      "icecream6", "icecream7", "icecream8", "icecream9", "icecream10" }

\* their UTF-16 code units
CodeUnits ==
    [s \in Compared |->
        CASE s = "Client"     -> <<67, 108, 105, 101, 110, 116>>
          [] s = "Cone"       -> <<67, 111, 110, 101>>
          [] s = "Flavor"     -> <<70, 108, 97, 118, 111, 114>>
          [] s = "ID"         -> <<73, 68>>
          [] s = "Size"       -> <<83, 105, 122, 101>>
          [] s = "Value"      -> <<86, 97, 108, 117, 101>>
          [] s = "docType"    -> <<100, 111, 99, 84, 121, 112, 101>>
          [] s = "icecream1"  -> <<105, 99, 101, 99, 114, 101, 97, 109, 49>>
          [] s = "icecream2"  -> <<105, 99, 101, 99, 114, 101, 97, 109, 50>>
          [] s = "icecream3"  -> <<105, 99, 101, 99, 114, 101, 97, 109, 51>>
          [] s = "icecream4"  -> <<105, 99, 101, 99, 114, 101, 97, 109, 52>>
          [] s = "icecream5"  -> <<105, 99, 101, 99, 114, 101, 97, 109, 53>>
          [] s = "icecream6"  -> <<105, 99, 101, 99, 114, 101, 97, 109, 54>>
          [] s = "icecream7"  -> <<105, 99, 101, 99, 114, 101, 97, 109, 55>>
          [] s = "icecream8"  -> <<105, 99, 101, 99, 114, 101, 97, 109, 56>>
          [] s = "icecream9"  -> <<105, 99, 101, 99, 114, 101, 97, 109, 57>>
          [] s = "icecream10" -> <<105, 99, 101, 99, 114, 101, 97, 109, 49, 48>>]

\* x < y for sequences of code units, comparing from position i on
RECURSIVE LexLess(_, _, _)
LexLess(x, y, i) ==
    IF i > Len(y) THEN FALSE
    ELSE IF i > Len(x) THEN TRUE
    ELSE IF x[i] = y[i] THEN LexLess(x, y, i + 1)
    ELSE x[i] < y[i]

\* a < b in code-unit (lexicographic) order
StrLess(a, b) == LexLess(CodeUnits[a], CodeUnits[b], 1)

(* ------------------------------- values -------------------------------- *)

Str(s) == [type |-> "string", text |-> s]
Num(s) == [type |-> "number", text |-> s]
Bool(b) == [type |-> "boolean", text |-> IF b THEN "true" ELSE "false"]
Undefined == [type |-> "undefined", text |-> ""]
Punct(s) == [type |-> "punct", text |-> s]

\* a member of an object
Member(k, v) == [key |-> k, value |-> v]

\* Object.keys(obj), in insertion order
Keys(obj) == [i \in 1..Len(obj) |-> obj[i].key]

HasKey(obj, k) == \E i \in 1..Len(obj) : obj[i].key = k

\* obj.k  (undefined when obj has no such property)
Get(obj, k) ==
    IF HasKey(obj, k)
    THEN obj[CHOOSE i \in 1..Len(obj) : obj[i].key = k].value
    ELSE Undefined

\* obj.k = v  (an existing property keeps its place, a new one goes last)
Set(obj, k, v) ==
    IF HasKey(obj, k)
    THEN [i \in 1..Len(obj) |-> IF obj[i].key = k THEN Member(k, v) ELSE obj[i]]
    ELSE Append(obj, Member(k, v))

(* ------------------------------ encoding ------------------------------- *)

\* m placed in the sorted sequence s, after the members whose key is not greater
InsertSorted(s, m) ==
    LET n == Cardinality({i \in 1..Len(s) : ~StrLess(m.key, s[i].key)})
    IN  SubSeq(s, 1, n) \o <<m>> \o SubSeq(s, n + 1, Len(s))

RECURSIVE SortByKey(_)
SortByKey(obj) ==
    IF obj = <<>> THEN <<>>
    ELSE InsertSorted(SortByKey(SubSeq(obj, 1, Len(obj) - 1)), obj[Len(obj)])

\* sort-keys-recursive: a new object with the keys in ascending order (the
\* records of this contract hold scalars only, so there is one level to sort)
sortKeysRecursive(obj) == SortByKey(obj)

\* the members of obj as JSON tokens, in the order given, each preceded by a
\* comma; a member whose value is undefined is left out
RECURSIVE CommaMembers(_)
CommaMembers(obj) ==
    IF obj = <<>> THEN <<>>
    ELSE (IF obj[1].value.type = "undefined" THEN <<>>
          ELSE <<Punct(","), Str(obj[1].key), Punct(":"), obj[1].value>>)
         \o CommaMembers(Tail(obj))

\* the same without the leading comma
RenderMembers(obj) ==
    IF \A i \in 1..Len(obj) : obj[i].value.type = "undefined" THEN <<>>
    ELSE Tail(CommaMembers(obj))

\* JSON.stringify(obj): members in insertion order
JSONstringify(obj) == <<Punct("{")>> \o RenderMembers(obj) \o <<Punct("}")>>

\* json-stringify-deterministic: members in ascending key order
stringify(obj) == <<Punct("{")>> \o RenderMembers(SortByKey(obj)) \o <<Punct("}")>>

IsPunct(tk, s) == tk.type = "punct" /\ tk.text = s

\* the text is one flat JSON object
IsJSONObject(t) ==
    /\ Len(t) >= 2
    /\ IsPunct(t[1], "{")
    /\ IsPunct(t[Len(t)], "}")
    /\ LET n == Len(t) - 2
       IN  \/ n = 0
           \/ /\ n % 4 = 3
              /\ \A i \in 1..n :
                    LET tk == t[i + 1]
                    IN  CASE i % 4 = 1 -> tk.type = "string"
                          [] i % 4 = 2 -> IsPunct(tk, ":")
                          [] i % 4 = 3 -> tk.type \in {"string", "number", "boolean"}
                          [] OTHER     -> IsPunct(tk, ",")

\* the object of the first n members of the text
RECURSIVE ParseMembers(_, _)
ParseMembers(t, n) ==
    IF n = 0 THEN <<>>
    ELSE Set(ParseMembers(t, n - 1), t[4 * n - 2].text, t[4 * n])

\* JSON.parse(text) of a text that is a JSON object: members in text order
JSONparse(t) == ParseMembers(t, (Len(t) - 1) \div 4)

\* variant: the bytes of JSON.stringify(obj), keys in insertion order
CanonicalBytes_insertionOrder(obj) == JSONstringify(obj)

\* Buffer.from(stringify(sortKeysRecursive(obj))): the bytes handed to putState.
\* The bytes of a text are written as the text's tokens.
CanonicalBytes(obj) == stringify(sortKeysRecursive(obj))

(* ------------------------- the stub (world state) ---------------------- *)

\* ctx: the world state a transaction runs against and the writes it has made
NewContext(w) == [state |-> w, writes |-> <<>>]

\* ctx.stub.getState(key): the stored bytes, an empty buffer for an absent key
getState(ctx, key) ==
    IF key \in DOMAIN ctx.state THEN ctx.state[key] ELSE <<>>

\* ctx.stub.putState(key, value)
putState(ctx, key, value) ==
    [state  |-> [k \in DOMAIN ctx.state \cup {key} |->
                    IF k = key THEN value ELSE ctx.state[k]],
     writes |-> Append(ctx.writes, [call |-> "putState", key |-> key, value |-> value])]

\* ctx.stub.deleteState(key)
deleteState(ctx, key) ==
    [state  |-> [k \in DOMAIN ctx.state \ {key} |-> ctx.state[k]],
     writes |-> Append(ctx.writes, [call |-> "deleteState", key |-> key, value |-> <<>>])]

\* the key k placed in the ascending sequence s
InsertKey(s, k) ==
    LET n == Cardinality({i \in 1..Len(s) : StrLess(s[i], k)})
    IN  SubSeq(s, 1, n) \o <<k>> \o SubSeq(s, n + 1, Len(s))

\* the keys of the set S in ascending order
RECURSIVE Ascending(_)
Ascending(S) ==
    IF S = {} THEN <<>>
    ELSE LET k == CHOOSE x \in S : TRUE
         IN  InsertKey(Ascending(S \ {k}), k)

\* ctx.stub.getStateByRange('', ''): every key of the namespace with its value,
\* in ascending key order
getStateByRange(ctx) ==
    LET keys == Ascending(DOMAIN ctx.state)
    IN  [i \in 1..Len(keys) |-> [key |-> keys[i], value |-> ctx.state[keys[i]]]]

(* ----------------------------- the contract ---------------------------- *)

NoError == <<>>

\* a handler's outcome: the context it leaves, the Error thrown, the value returned
Return(ctx, value) == [ctx |-> ctx, err |-> NoError, ret |-> value]
Throw(ctx, message) == [ctx |-> ctx, err |-> message, ret |-> Undefined]

AlreadyExists(id) == <<"The asset ", id, " already exists">>
NotFound(id) == <<"The asset ", id, " does not exist">>
SyntaxError == <<"SyntaxError: Unexpected token in JSON">>

\* the seed records of InitLedger
SeedAsset(id, flavor, size, client, cone, value) ==
    << Member("ID", Str(id)), Member("Flavor", Str(flavor)), Member("Size", Str(size)),
       Member("Client", Str(client)), Member("Cone", Str(cone)),
       Member("Value", Num(value)) >>

assets ==
    << SeedAsset("icecream1", "chocolate", "medium", "Paola", "sugar", "10000"),
       SeedAsset("icecream2", "vanilla", "small", "Martha", "waffle", "6000"),
       SeedAsset("icecream3", "mint", "big", "Anna", "cake", "15000"),
       SeedAsset("icecream4", "strawberry", "big", "Pablo", "waffle", "15000"),
       SeedAsset("icecream5", "vanilla", "medium", "Manuel", "cake", "10000"),
       SeedAsset("icecream6", "chocolate", "small", "Augusto", "sugar", "6000"),
       SeedAsset("icecream7", "mint", "big", "Victoria", "waffle", "15000"),
       SeedAsset("icecream8", "vanilla", "small", "Sandra", "cake", "6000"),
       SeedAsset("icecream9", "brownie", "medium", "Hector", "cake", "10000") >>

\* variant: a seed record is written only when its key is absent
RECURSIVE InitLedgerLoop_ifAbsent(_, _)
InitLedgerLoop_ifAbsent(ctx, n) ==
    IF n = 0 THEN ctx
    ELSE LET asset == Set(assets[n], "docType", Str("asset"))
             before == InitLedgerLoop_ifAbsent(ctx, n - 1)
         IN  IF Len(getState(before, Get(asset, "ID").text)) > 0 THEN before
             ELSE putState(before, Get(asset, "ID").text, CanonicalBytes(asset))

\* the loop of InitLedger over the first n seed records
RECURSIVE InitLedgerLoop(_, _)
InitLedgerLoop(ctx, n) ==
    IF n = 0 THEN ctx
    ELSE LET asset == Set(assets[n], "docType", Str("asset"))
         IN  putState(InitLedgerLoop(ctx, n - 1), Get(asset, "ID").text,
                      CanonicalBytes(asset))

\* variant: the loop stops one record short
InitLedger_oneShort(ctx) == Return(InitLedgerLoop(ctx, Len(assets) - 1), Undefined)

InitLedger(ctx) == Return(InitLedgerLoop(ctx, Len(assets)), Undefined)

AssetExists(ctx, id) ==
    LET assetJSON == getState(ctx, id)
    IN  Len(assetJSON) > 0

ReadAsset(ctx, id) ==
    LET assetJSON == getState(ctx, id)
    IN  IF Len(assetJSON) = 0
        THEN Throw(ctx, NotFound(id))
        ELSE Return(ctx, assetJSON)

\* variant: no existence check before the write
CreateAsset_noCheck(ctx, id, flavor, size, client, cone, value) ==
    LET asset == << Member("ID", Str(id)), Member("Flavor", Str(flavor)),
                    Member("Size", Str(size)), Member("Client", Str(client)),
                    Member("Cone", Str(cone)), Member("Value", Str(value)) >>
    IN  Return(putState(ctx, id, CanonicalBytes(asset)), JSONstringify(asset))

\* variant: the record's ID taken from another argument than the key
CreateAsset_idSwapped(ctx, id, flavor, size, client, cone, value) ==
    IF AssetExists(ctx, id)
    THEN Throw(ctx, AlreadyExists(id))
    ELSE LET asset == << Member("ID", Str(flavor)), Member("Flavor", Str(id)),
                         Member("Size", Str(size)), Member("Client", Str(client)),
                         Member("Cone", Str(cone)), Member("Value", Str(value)) >>
         IN  Return(putState(ctx, id, CanonicalBytes(asset)), JSONstringify(asset))

CreateAsset(ctx, id, flavor, size, client, cone, value) ==
    IF AssetExists(ctx, id)
    THEN Throw(ctx, AlreadyExists(id))
    ELSE LET asset == << Member("ID", Str(id)), Member("Flavor", Str(flavor)),
                         Member("Size", Str(size)), Member("Client", Str(client)),
                         Member("Cone", Str(cone)), Member("Value", Str(value)) >>
         IN  Return(putState(ctx, id, CanonicalBytes(asset)), JSONstringify(asset))

UpdateAsset(ctx, id, flavor) ==
    IF ~AssetExists(ctx, id)
    THEN Throw(ctx, NotFound(id))
    ELSE LET read == ReadAsset(ctx, id)
         IN  IF read.err # NoError THEN read
             ELSE IF ~IsJSONObject(read.ret) THEN Throw(ctx, SyntaxError)
             ELSE LET asset == JSONparse(read.ret)
                      updatedAsset ==
                          << Member("ID", Str(id)), Member("Flavor", Str(flavor)),
                             Member("Size", Get(asset, "Size")),
                             Member("Client", Get(asset, "Client")),
                             Member("Cone", Get(asset, "Cone")),
                             Member("Value", Get(asset, "Value")) >>
                  IN  Return(putState(ctx, id, CanonicalBytes(updatedAsset)), Undefined)

\* variant: the existence check without the deleteState call
DeleteAsset_keepsKey(ctx, id) ==
    IF ~AssetExists(ctx, id)
    THEN Throw(ctx, NotFound(id))
    ELSE Return(ctx, Undefined)

\* variant: other keys go with the deleted one (a range delete up to id)
DeleteAsset_upTo(ctx, id) ==
    IF ~AssetExists(ctx, id)
    THEN Throw(ctx, NotFound(id))
    ELSE Return([state  |-> [k \in {o \in DOMAIN ctx.state : StrLess(id, o)} |->
                                ctx.state[k]],
                 writes |-> Append(ctx.writes,
                                   [call |-> "deleteState", key |-> id, value |-> <<>>])],
                Undefined)

\* variant: deleteState without the existence check
DeleteAsset_noCheck(ctx, id) == Return(deleteState(ctx, id), Undefined)

\* variant: a soft delete, the record replaced by a marker under the same key
DeleteAsset_softDelete(ctx, id) ==
    IF ~AssetExists(ctx, id)
    THEN Throw(ctx, NotFound(id))
    ELSE Return(putState(ctx, id, CanonicalBytes(<<Member("deleted", Bool(TRUE))>>)),
                Undefined)

DeleteAsset(ctx, id) ==
    IF ~AssetExists(ctx, id)
    THEN Throw(ctx, NotFound(id))
    ELSE Return(deleteState(ctx, id), Undefined)

\* variant: the owner is read after it has been overwritten
TransferAsset_returnsNew(ctx, id, newOwner) ==
    LET read == ReadAsset(ctx, id)
    IN  IF read.err # NoError THEN read
        ELSE IF ~IsJSONObject(read.ret) THEN Throw(ctx, SyntaxError)
        ELSE LET changed == Set(JSONparse(read.ret), "Client", Str(newOwner))
                 oldOwner == Get(changed, "Client")
             IN  Return(putState(ctx, id, CanonicalBytes(changed)), oldOwner)

\* variant: the record is built anew from six fields, as UpdateAsset does
TransferAsset_rebuilds(ctx, id, newOwner) ==
    LET read == ReadAsset(ctx, id)
    IN  IF read.err # NoError THEN read
        ELSE IF ~IsJSONObject(read.ret) THEN Throw(ctx, SyntaxError)
        ELSE LET asset == JSONparse(read.ret)
                 oldOwner == Get(asset, "Client")
                 changed == << Member("ID", Str(id)), Member("Flavor", Get(asset, "Flavor")),
                               Member("Size", Get(asset, "Size")),
                               Member("Client", Str(newOwner)),
                               Member("Cone", Get(asset, "Cone")),
                               Member("Value", Get(asset, "Value")) >>
             IN  Return(putState(ctx, id, CanonicalBytes(changed)), oldOwner)

TransferAsset(ctx, id, newOwner) ==
    LET read == ReadAsset(ctx, id)
    IN  IF read.err # NoError THEN read
        ELSE IF ~IsJSONObject(read.ret) THEN Throw(ctx, SyntaxError)
        ELSE LET asset == JSONparse(read.ret)
                 oldOwner == Get(asset, "Client")
                 changed == Set(asset, "Client", Str(newOwner))
             IN  Return(putState(ctx, id, CanonicalBytes(changed)), oldOwner)

\* JSON.stringify(allResults): the elements, comma separated, in brackets.  An
\* element is a record (an object) or, for a value that did not parse, a string.
RECURSIVE CommaElements(_)
CommaElements(results) ==
    IF results = <<>> THEN <<>>
    ELSE <<Punct(",")>>
         \o (IF results[1].isObject THEN JSONstringify(results[1].record)
             ELSE <<[type |-> "text", text |-> results[1].record]>>)
         \o CommaElements(Tail(results))

RenderElements(results) ==
    IF results = <<>> THEN <<>> ELSE Tail(CommaElements(results))

JSONstringifyArray(results) == <<Punct("[")>> \o RenderElements(results) \o <<Punct("]")>>

\* variant: allResults.unshift(record), the results in reverse
GetAllAssetsLoop_unshift(iterator) ==
    [i \in 1..Len(iterator) |->
        LET strValue == iterator[Len(iterator) + 1 - i].value
        IN  IF IsJSONObject(strValue)
            THEN [isObject |-> TRUE, record |-> JSONparse(strValue)]
            ELSE [isObject |-> FALSE, record |-> strValue]]

\* variant: no try/catch around JSON.parse, the loop ends at the first value
\* that does not parse
GetAllAssetsLoop_stopsEarly(iterator) ==
    LET bad == {i \in 1..Len(iterator) : ~IsJSONObject(iterator[i].value)}
        n == IF bad = {} THEN Len(iterator)
             ELSE (CHOOSE i \in bad : \A j \in bad : i <= j) - 1
    IN  [i \in 1..n |-> [isObject |-> TRUE, record |-> JSONparse(iterator[i].value)]]

\* the while loop of GetAllAssets over the iterator's results
GetAllAssetsLoop(iterator) ==
    [i \in 1..Len(iterator) |->
        LET strValue == iterator[i].value
        IN  IF IsJSONObject(strValue)
            THEN [isObject |-> TRUE, record |-> JSONparse(strValue)]
            ELSE [isObject |-> FALSE, record |-> strValue]]

GetAllAssets(ctx) ==
    LET iterator == getStateByRange(ctx)
        allResults == GetAllAssetsLoop(iterator)
    IN  Return(ctx, JSONstringifyArray(allResults))

(* ------------------------------ the client ----------------------------- *)

\* JSON.parse of the text of an array, as prettyJSONString does: its elements.
\* An element ends at a closing brace (an object, which began at the last
\* opening brace before it) or is a single token between brackets and commas.
JSONparseArray(t) ==
    LET opens == {i \in 1..Len(t) : IsPunct(t[i], "{")}
        ends == {j \in 2..(Len(t) - 1) :
                    \/ IsPunct(t[j], "}")
                    \/ /\ t[j].type # "punct"
                       /\ IsPunct(t[j - 1], "[") \/ IsPunct(t[j - 1], ",")
                       /\ IsPunct(t[j + 1], "]") \/ IsPunct(t[j + 1], ",")}
        ElementEndingAt(j) ==
            IF IsPunct(t[j], "}")
            THEN JSONparse(SubSeq(t, CHOOSE i \in opens :
                                        i < j /\ \A o \in opens : o < j => o <= i, j))
            ELSE t[j]
    IN  [n \in 1..Cardinality(ends) |->
            ElementEndingAt(CHOOSE j \in ends : Cardinality({e \in ends : e < j}) = n - 1)]

Call(name, args) == [name |-> name, args |-> args]

\* the transactions main() sends, in order
mainScript ==
    << Call("InitLedger", <<>>),
       Call("GetAllAssets", <<>>),
       Call("CreateAsset", <<"icecream10", "vanilla", "small", "Carmen", "sugar", "6000">>),
       Call("ReadAsset", <<"icecream4">>),
       Call("ReadAsset", <<"icecream10">>),
       Call("AssetExists", <<"icecream1">>),
       Call("UpdateAsset", <<"icecream1", "vanilla">>),
       Call("ReadAsset", <<"icecream1">>),
       Call("TransferAsset", <<"icecream1", "Maria">>),
       Call("ReadAsset", <<"icecream1">>) >>

\* the contract's dispatch of a named transaction with its string arguments
Invoke(ctx, c) ==
    LET a == c.args
    IN  CASE c.name = "InitLedger"    -> InitLedger(ctx)
          [] c.name = "CreateAsset"   -> CreateAsset(ctx, a[1], a[2], a[3], a[4], a[5], a[6])
          [] c.name = "ReadAsset"     -> ReadAsset(ctx, a[1])
          [] c.name = "UpdateAsset"   -> UpdateAsset(ctx, a[1], a[2])
          [] c.name = "DeleteAsset"   -> DeleteAsset(ctx, a[1])
          [] c.name = "AssetExists"   -> Return(ctx, Bool(AssetExists(ctx, a[1])))
          [] c.name = "TransferAsset" -> TransferAsset(ctx, a[1], a[2])
          [] c.name = "GetAllAssets"  -> GetAllAssets(ctx)

(* ------------------------------- inputs -------------------------------- *)

\* the keys of the seed records and of the record main() creates
AllIds == { "icecream1", "icecream2", "icecream3", "icecream4", "icecream5",
            "icecream6", "icecream7", "icecream8", "icecream9", "icecream10" }

\* the keys the writing transactions are tried on
Ids == { "icecream1", "icecream10" }

\* flavor, size, client, cone, value of the records created
FieldSets == { <<"vanilla", "small", "Carmen", "sugar", "6000">>,
               <<"mint", "big", "Maria", "waffle", "15000">> }

Flavors == { "vanilla", "mint" }
Owners == { "Maria", "Carmen" }

(* ---------------------------- the transitions -------------------------- *)

NoCall == Call("", <<>>)
NoWrite == [call |-> "", key |-> "", value |-> <<>>]

\* the transactions that can be in flight at the same time
Txs == { "tx1", "tx2", "tx3" }

\* a transaction not submitted yet: no call, nothing read, nothing thrown
Idle == [call |-> NoCall, at |-> "idle", read |-> <<>>, err |-> NoError,
         ret |-> Undefined]

NoneInFlight == [t \in Txs |-> Idle]

NoWriteYet == [tx |-> "", call |-> "", key |-> "", value |-> <<>>]

Init ==
    /\ ws = << >>
    /\ op = NoCall
    /\ err = NoError
    /\ ret = Undefined
    /\ writes = <<>>
    /\ rewritten = {}
    /\ pc = 0
    /\ others = FALSE
    /\ logical = NoWrite
    /\ object = <<>>
    /\ persisted = <<>>
    /\ txs = NoneInFlight
    /\ lastWrite = NoWriteYet

\* the transaction c runs against the world state and its outcome is recorded
Run(c) ==
    \E r \in {Invoke(NewContext(ws), c)} :
        /\ ws' = r.ctx.state
        /\ op' = c
        /\ err' = r.err
        /\ ret' = r.ret
        /\ writes' = r.ctx.writes
        /\ rewritten' = {k \in DOMAIN r.ctx.state :
                            r.ctx.state[k] # getState(NewContext(ws), k)}
        /\ UNCHANGED <<logical, object, persisted, txs, lastWrite>>

\* the transaction comes from some other client; from then on the run is no
\* longer main()'s alone and main() is not followed further
ByAnotherClient ==
    /\ others' = TRUE
    /\ pc' = 0

\* the next call of main(), for as long as main() is the only client
MainStep ==
    /\ ~others
    /\ pc < Len(mainScript)
    /\ Run(mainScript[pc + 1])
    /\ pc' = pc + 1
    /\ UNCHANGED others

SubmitInitLedger ==
    /\ Run(Call("InitLedger", <<>>))
    /\ ByAnotherClient

SubmitCreateAsset ==
    \E id \in Ids, f \in FieldSets :
        /\ Run(Call("CreateAsset", <<id>> \o f))
        /\ ByAnotherClient

SubmitReadAsset ==
    \E id \in Ids :
        /\ Run(Call("ReadAsset", <<id>>))
        /\ ByAnotherClient

SubmitUpdateAsset ==
    \E id \in Ids, flavor \in Flavors :
        /\ Run(Call("UpdateAsset", <<id, flavor>>))
        /\ ByAnotherClient

SubmitDeleteAsset ==
    \E id \in Ids :
        /\ Run(Call("DeleteAsset", <<id>>))
        /\ ByAnotherClient

SubmitAssetExists ==
    \E id \in Ids :
        /\ Run(Call("AssetExists", <<id>>))
        /\ ByAnotherClient

SubmitTransferAsset ==
    \E id \in Ids, newOwner \in Owners :
        /\ Run(Call("TransferAsset", <<id, newOwner>>))
        /\ ByAnotherClient

SubmitGetAllAssets ==
    /\ Run(Call("GetAllAssets", <<>>))
    /\ ByAnotherClient

Next ==
    \/ MainStep
    \/ SubmitInitLedger
    \/ SubmitCreateAsset
    \/ SubmitReadAsset
    \/ SubmitUpdateAsset
    \/ SubmitDeleteAsset
    \/ SubmitAssetExists
    \/ SubmitTransferAsset
    \/ SubmitGetAllAssets

Spec == Init /\ [][Next]_vars

(* ------------- a store that also holds values of other origin --------- *)

\* keys under which a value that is not the contract's own is placed
ForeignKeys == { "icecream10", "icecream5" }

\* texts JSON.parse rejects: plain words, and an object cut short
Malformed ==
    { <<[type |-> "text", text |-> "not json"]>>,
      <<Punct("{"), Str("ID"), Punct(":")>> }

\* a value is put under a key by something other than this contract
ForeignWrite ==
    \E k \in ForeignKeys, raw \in Malformed :
        /\ ws' = putState(NewContext(ws), k, raw).state
        /\ op' = NoCall
        /\ err' = NoError
        /\ ret' = Undefined
        /\ writes' = <<>>
        /\ rewritten' = {k} \ {o \in DOMAIN ws : ws[o] = raw}
        /\ ByAnotherClient
        /\ UNCHANGED <<logical, object, persisted, txs, lastWrite>>

NextLenient == ForeignWrite \/ Next

SpecLenient == Init /\ [][NextLenient]_vars

(* ------------------ a logical write executed once more ---------------- *)

\* the putState calls of the contract on an empty ledger: those of InitLedger
\* and of a CreateAsset for each key and field set
ContractWrites ==
    {InitLedger(NewContext(<< >>)).ctx.writes[n] : n \in {1, Len(assets)}}
    \cup {CreateAsset(NewContext(<< >>), id, f[1], f[2], f[3], f[4], f[5]).ctx.writes[1] :
            id \in Ids, f \in FieldSets}

\* the name/value pairs of a stored record
FieldsOf(bytes) == {JSONparse(bytes)[i] : i \in 1..Len(JSONparse(bytes))}

InitEnc ==
    /\ ws = << >>
    /\ op = NoCall
    /\ err = NoError
    /\ ret = Undefined
    /\ writes = <<>>
    /\ rewritten = {}
    /\ pc = 0
    /\ others = FALSE
    /\ logical \in ContractWrites
    /\ object = <<>>
    /\ persisted = <<>>
    /\ txs = NoneInFlight
    /\ lastWrite = NoWriteYet

\* object[key] = value, for a field of the record that is not set yet
InsertField ==
    /\ persisted = <<>>
    /\ \E m \in FieldsOf(logical.value) :
          /\ ~HasKey(object, m.key)
          /\ object' = Set(object, m.key, m.value)
    /\ UNCHANGED <<ws, op, err, ret, writes, rewritten, pc, others, logical,
                   persisted,
                   txs, lastWrite>>

\* the finished object is encoded for putState
PersistObject ==
    /\ persisted = <<>>
    /\ Len(object) = Cardinality(FieldsOf(logical.value))
    /\ persisted' = CanonicalBytes(object)
    /\ UNCHANGED <<ws, op, err, ret, writes, rewritten, pc, others, logical,
                   object,
                   txs, lastWrite>>

NextEnc == InsertField \/ PersistObject

SpecEnc == InitEnc /\ [][NextEnc]_vars

(* ------- transactions interleaved at their getState / putState calls --- *)
(* Each handler is an async function: it gives up control at every await,   *)
(* that is at each call of the stub.  Here the transactions in flight read   *)
(* and write one store directly, with no conflict detection at commit.       *)

\* the variables of the one-at-a-time runs
seqVars == <<op, err, ret, writes, rewritten, pc, others, logical, object, persisted>>

\* the ledger as InitLedger leaves it
Seeded == InitLedger(NewContext(<< >>)).ctx.state

\* the calls submitted at the same time
ConcurrentCalls ==
    {Call("CreateAsset", <<id>> \o f) : id \in Ids, f \in FieldSets}
    \cup {Call("UpdateAsset", <<id, flavor>>) : id \in Ids, flavor \in Flavors}
    \cup {Call("TransferAsset", <<id, newOwner>>) : id \in Ids, newOwner \in Owners}
    \cup {Call("DeleteAsset", <<id>>) : id \in Ids}

InitConc ==
    /\ ws \in {<< >>, Seeded}
    /\ op = NoCall
    /\ err = NoError
    /\ ret = Undefined
    /\ writes = <<>>
    /\ rewritten = {}
    /\ pc = 0
    /\ others = FALSE
    /\ logical = NoWrite
    /\ object = <<>>
    /\ persisted = <<>>
    /\ txs = NoneInFlight
    /\ lastWrite = NoWriteYet

\* transaction t runs the handler `name` and stands before the step `at`
At(t, name, at) == txs[t].call.name = name /\ txs[t].at = at

Goto(t, at) == txs' = [txs EXCEPT ![t].at = at]
Thrown(t, message) == txs' = [txs EXCEPT ![t].at = "done", ![t].err = message]
Returned(t, value) == txs' = [txs EXCEPT ![t].at = "done", ![t].ret = value]

\* the store takes the one write the context ctx holds
Written(t, ctx) ==
    /\ ws' = ctx.state
    /\ lastWrite' = [tx |-> t, call |-> ctx.writes[1].call,
                     key |-> ctx.writes[1].key, value |-> ctx.writes[1].value]

\* a client submits a call
SubmitConcurrently ==
    \E t \in Txs, c \in ConcurrentCalls :
        /\ txs[t].at = "idle"
        /\ txs' = [txs EXCEPT ![t] = [Idle EXCEPT !.call = c, !.at = "start"]]
        /\ UNCHANGED <<ws, lastWrite>>
        /\ UNCHANGED seqVars

\* CreateAsset: await this.AssetExists(ctx, id), then the throw or on to the write
CreateAssetCheck ==
    \E t \in Txs :
        /\ At(t, "CreateAsset", "start")
        /\ IF AssetExists(NewContext(ws), txs[t].call.args[1])
           THEN Thrown(t, AlreadyExists(txs[t].call.args[1]))
           ELSE Goto(t, "putState")
        /\ UNCHANGED <<ws, lastWrite>>
        /\ UNCHANGED seqVars

\* variant: a store with compare-and-swap, the write refused once the key is there
CreateAssetWrite_compareAndSwap ==
    \E t \in Txs :
        /\ At(t, "CreateAsset", "putState")
        /\ LET a == txs[t].call.args
               asset == << Member("ID", Str(a[1])), Member("Flavor", Str(a[2])),
                           Member("Size", Str(a[3])), Member("Client", Str(a[4])),
                           Member("Cone", Str(a[5])), Member("Value", Str(a[6])) >>
           IN  IF a[1] \in DOMAIN ws
               THEN /\ Thrown(t, AlreadyExists(a[1]))
                    /\ UNCHANGED <<ws, lastWrite>>
               ELSE /\ Written(t, putState(NewContext(ws), a[1], CanonicalBytes(asset)))
                    /\ Returned(t, JSONstringify(asset))
        /\ UNCHANGED seqVars

\* CreateAsset: await ctx.stub.putState(...), then the return
CreateAssetWrite ==
    \E t \in Txs :
        /\ At(t, "CreateAsset", "putState")
        /\ LET a == txs[t].call.args
               asset == << Member("ID", Str(a[1])), Member("Flavor", Str(a[2])),
                           Member("Size", Str(a[3])), Member("Client", Str(a[4])),
                           Member("Cone", Str(a[5])), Member("Value", Str(a[6])) >>
           IN  /\ Written(t, putState(NewContext(ws), a[1], CanonicalBytes(asset)))
               /\ Returned(t, JSONstringify(asset))
        /\ UNCHANGED seqVars

\* UpdateAsset: await this.AssetExists(ctx, id)
UpdateAssetCheck ==
    \E t \in Txs :
        /\ At(t, "UpdateAsset", "start")
        /\ IF ~AssetExists(NewContext(ws), txs[t].call.args[1])
           THEN Thrown(t, NotFound(txs[t].call.args[1]))
           ELSE Goto(t, "ReadAsset")
        /\ UNCHANGED <<ws, lastWrite>>
        /\ UNCHANGED seqVars

\* UpdateAsset: await this.ReadAsset(ctx, id) and JSON.parse
UpdateAssetRead ==
    \E t \in Txs :
        /\ At(t, "UpdateAsset", "ReadAsset")
        /\ LET read == ReadAsset(NewContext(ws), txs[t].call.args[1])
           IN  IF read.err # NoError THEN Thrown(t, read.err)
               ELSE IF ~IsJSONObject(read.ret) THEN Thrown(t, SyntaxError)
               ELSE txs' = [txs EXCEPT ![t].at = "putState", ![t].read = read.ret]
        /\ UNCHANGED <<ws, lastWrite>>
        /\ UNCHANGED seqVars

\* variant: a store that checks the read set, the write refused when the value
\* under the key is no longer the one read
UpdateAssetWrite_readSetChecked ==
    \E t \in Txs :
        /\ At(t, "UpdateAsset", "putState")
        /\ LET a == txs[t].call.args
               asset == JSONparse(txs[t].read)
               updatedAsset ==
                   << Member("ID", Str(a[1])), Member("Flavor", Str(a[2])),
                      Member("Size", Get(asset, "Size")),
                      Member("Client", Get(asset, "Client")),
                      Member("Cone", Get(asset, "Cone")),
                      Member("Value", Get(asset, "Value")) >>
           IN  IF getState(NewContext(ws), a[1]) # txs[t].read
               THEN /\ Thrown(t, <<"MVCC_READ_CONFLICT">>)
                    /\ UNCHANGED <<ws, lastWrite>>
               ELSE /\ Written(t, putState(NewContext(ws), a[1],
                                           CanonicalBytes(updatedAsset)))
                    /\ Returned(t, Undefined)
        /\ UNCHANGED seqVars

\* UpdateAsset: the new record and ctx.stub.putState(...)
UpdateAssetWrite ==
    \E t \in Txs :
        /\ At(t, "UpdateAsset", "putState")
        /\ LET a == txs[t].call.args
               asset == JSONparse(txs[t].read)
               updatedAsset ==
                   << Member("ID", Str(a[1])), Member("Flavor", Str(a[2])),
                      Member("Size", Get(asset, "Size")),
                      Member("Client", Get(asset, "Client")),
                      Member("Cone", Get(asset, "Cone")),
                      Member("Value", Get(asset, "Value")) >>
           IN  /\ Written(t, putState(NewContext(ws), a[1], CanonicalBytes(updatedAsset)))
               /\ Returned(t, Undefined)
        /\ UNCHANGED seqVars

\* DeleteAsset: await this.AssetExists(ctx, id)
DeleteAssetCheck ==
    \E t \in Txs :
        /\ At(t, "DeleteAsset", "start")
        /\ IF ~AssetExists(NewContext(ws), txs[t].call.args[1])
           THEN Thrown(t, NotFound(txs[t].call.args[1]))
           ELSE Goto(t, "deleteState")
        /\ UNCHANGED <<ws, lastWrite>>
        /\ UNCHANGED seqVars

\* DeleteAsset: ctx.stub.deleteState(id)
DeleteAssetWrite ==
    \E t \in Txs :
        /\ At(t, "DeleteAsset", "deleteState")
        /\ Written(t, deleteState(NewContext(ws), txs[t].call.args[1]))
        /\ Returned(t, Undefined)
        /\ UNCHANGED seqVars

\* TransferAsset: await this.ReadAsset(ctx, id) and JSON.parse
TransferAssetRead ==
    \E t \in Txs :
        /\ At(t, "TransferAsset", "start")
        /\ LET read == ReadAsset(NewContext(ws), txs[t].call.args[1])
           IN  IF read.err # NoError THEN Thrown(t, read.err)
               ELSE IF ~IsJSONObject(read.ret) THEN Thrown(t, SyntaxError)
               ELSE txs' = [txs EXCEPT ![t].at = "putState", ![t].read = read.ret]
        /\ UNCHANGED <<ws, lastWrite>>
        /\ UNCHANGED seqVars

\* TransferAsset: the owner changed, await ctx.stub.putState(...), the return
TransferAssetWrite ==
    \E t \in Txs :
        /\ At(t, "TransferAsset", "putState")
        /\ LET a == txs[t].call.args
               asset == JSONparse(txs[t].read)
               oldOwner == Get(asset, "Client")
               changed == Set(asset, "Client", Str(a[2]))
           IN  /\ Written(t, putState(NewContext(ws), a[1], CanonicalBytes(changed)))
               /\ Returned(t, oldOwner)
        /\ UNCHANGED seqVars

NextConc ==
    \/ SubmitConcurrently
    \/ CreateAssetCheck
    \/ CreateAssetWrite
    \/ UpdateAssetCheck
    \/ UpdateAssetRead
    \/ UpdateAssetWrite
    \/ DeleteAssetCheck
    \/ DeleteAssetWrite
    \/ TransferAssetRead
    \/ TransferAssetWrite

SpecConc == InitConc /\ [][NextConc]_vars

(* ------------------------- reading the last step ----------------------- *)

Ctx == NewContext(ws)

\* the last transaction was `name` and it threw nothing
Succeeded(name) == op.name = name /\ err = NoError

\* the record stored under key id of the world state w
RecordAt(w, id) == JSONparse(w[id])

\* the record an immediately following ReadAsset(id) returns, decoded
ReadBack(id) == JSONparse(ReadAsset(Ctx, id).ret)

\* the object keys of a stored text are in strictly ascending order
KeysAscending(t) ==
    LET keys == Keys(JSONparse(t))
    IN  \A i \in 1..(Len(keys) - 1) : StrLess(keys[i], keys[i + 1])

FieldNames == {"ID", "Flavor", "Size", "Client", "Cone", "Value", "docType"}

(* --------------------------------- C1 ---------------------------------- *)

\* C1 (Uniqueness): a CreateAsset(id, ...) issued while key id holds a non-empty
\* value throws 'The asset id already exists', writes nothing and leaves the
\* whole world state, the value under id included, as it was.
C1_Uniqueness ==
    [][ (op'.name = "CreateAsset" /\ Len(getState(Ctx, op'.args[1])) > 0)
        => /\ err' = AlreadyExists(op'.args[1])
           /\ writes' = <<>>
           /\ ws' = ws ]_vars

\* a second CreateAsset with other field values was refused and the first
\* record is still stored
C1_Witness ==
    /\ op.name = "CreateAsset"
    /\ err = AlreadyExists(op.args[1])
    /\ Get(RecordAt(ws, op.args[1]), "Flavor") # Str(op.args[2])
    /\ Get(RecordAt(ws, op.args[1]), "Client") # Str(op.args[4])

(* --------------------------------- C2 ---------------------------------- *)

\* C2 (Round-trip): after a successful CreateAsset(id, flavor, size, client,
\* cone, value), ReadAsset(id) returns a record with exactly those field
\* values, ID = id and docType = 'asset'.
C2_RoundTrip ==
    Succeeded("CreateAsset") =>
        LET a == op.args
            read == ReadAsset(Ctx, a[1])
        IN  /\ read.err = NoError
            /\ Get(JSONparse(read.ret), "ID") = Str(a[1])
            /\ Get(JSONparse(read.ret), "Flavor") = Str(a[2])
            /\ Get(JSONparse(read.ret), "Size") = Str(a[3])
            /\ Get(JSONparse(read.ret), "Client") = Str(a[4])
            /\ Get(JSONparse(read.ret), "Cone") = Str(a[5])
            /\ Get(JSONparse(read.ret), "Value") = Str(a[6])
            /\ Get(JSONparse(read.ret), "docType") = Str("asset")

(* --------------------------------- C3 ---------------------------------- *)

\* C3 (Existence consistency): AssetExists(id) is true right after a successful
\* CreateAsset(id, ...) or UpdateAsset(id, ...) and false right after a
\* successful DeleteAsset(id); it is false for every key before any transaction
\* has run, and a key for which it is false stays so until a CreateAsset(id)
\* or an InitLedger writes it; an AssetExists transaction throws nothing,
\* writes nothing and returns a boolean.
C3_ExistenceConsistency ==
    /\ []( /\ (Succeeded("CreateAsset") \/ Succeeded("UpdateAsset"))
                  => AssetExists(Ctx, op.args[1])
           /\ Succeeded("DeleteAsset") => ~AssetExists(Ctx, op.args[1])
           /\ op = NoCall => \A id \in AllIds : ~AssetExists(Ctx, id)
           /\ op.name = "AssetExists"
                  => /\ err = NoError
                     /\ writes = <<>>
                     /\ ret = Bool(op.args[1] \in DOMAIN ws) )
    /\ [][ \A id \in AllIds :
              (~AssetExists(Ctx, id) /\ AssetExists(NewContext(ws'), id))
                  => \/ op'.name = "InitLedger"
                     \/ op'.name = "CreateAsset" /\ op'.args[1] = id ]_vars

\* a key that existed was deleted, and other keys are still there
C3_Witness ==
    /\ Succeeded("DeleteAsset")
    /\ ~AssetExists(Ctx, op.args[1])
    /\ \E id \in AllIds : AssetExists(Ctx, id)

(* --------------------------------- C4 ---------------------------------- *)

\* C4 (Transfer semantics): a successful TransferAsset(id, newOwner) returns
\* the Client stored under id just before the call and a ReadAsset(id) right
\* after shows Client = newOwner; in main()'s run (InitLedger, ...,
\* UpdateAsset('icecream1','vanilla'), ..., TransferAsset('icecream1','Maria'))
\* the value returned is 'Paola'.
C4_TransferSemantics ==
    /\ [][ (op'.name = "TransferAsset" /\ err' = NoError)
           => /\ ret' = Get(RecordAt(ws, op'.args[1]), "Client")
              /\ Get(JSONparse(ReadAsset(NewContext(ws'), op'.args[1]).ret), "Client")
                    = Str(op'.args[2]) ]_vars
    /\ [](( ~others /\ pc = 9 ) => ( Succeeded("TransferAsset") /\ ret = Str("Paola") ))

\* main() has just transferred icecream1 to Maria and got the seeded owner back
C4_Witness ==
    /\ ~others
    /\ pc = 9
    /\ op = Call("TransferAsset", <<"icecream1", "Maria">>)
    /\ ret = Str("Paola")
    /\ Get(ReadBack("icecream1"), "Client") = Str("Maria")
    /\ Get(ReadBack("icecream1"), "Flavor") = Str("vanilla")

(* --------------------------------- C5 ---------------------------------- *)

\* C5 (Update preserves unspecified fields): after a successful
\* UpdateAsset(id, flavor) the record under id has Flavor = flavor, every other
\* field of the record stored before (docType included when it was there)
\* unchanged, and no field added or removed.
C5_UpdatePreservesFields ==
    [][ (op'.name = "UpdateAsset" /\ err' = NoError)
        => LET id == op'.args[1]
           IN  /\ Get(RecordAt(ws', id), "Flavor") = Str(op'.args[2])
               /\ \A k \in FieldNames \ {"Flavor"} :
                      Get(RecordAt(ws', id), k) = Get(RecordAt(ws, id), k)
               /\ \A k \in FieldNames :
                      HasKey(RecordAt(ws', id), k) <=> HasKey(RecordAt(ws, id), k) ]_vars

(* --------------------------------- C6 ---------------------------------- *)

\* the entries a GetAllAssets issued now returns, as the client decodes them
ScanNow == JSONparseArray(GetAllAssets(Ctx).ret)

\* the position in the scan of the entry whose ID is id (0 if there is none)
IndexIn(scan, id) ==
    IF \E i \in 1..Len(scan) : Get(scan[i], "ID") = Str(id)
    THEN CHOOSE i \in 1..Len(scan) : Get(scan[i], "ID") = Str(id)
    ELSE 0

\* C6 (Scan ordering and completeness): in every reachable state GetAllAssets
\* throws nothing and returns one entry per key that holds a value and no
\* other entry, in ascending lexicographic key order: entry i is the decoded
\* value of the key that has exactly i-1 smaller keys.  With icecream1,
\* icecream10 and icecream2 present, icecream10 comes directly after icecream1
\* and directly before icecream2.
C6_ScanOrdering ==
    /\ GetAllAssets(Ctx).err = NoError
    /\ \A scan \in {ScanNow} :
          /\ Len(scan) = Cardinality(DOMAIN ws)
          /\ \A k \in DOMAIN ws :
                scan[Cardinality({o \in DOMAIN ws : StrLess(o, k)}) + 1] = RecordAt(ws, k)
          /\ {"icecream1", "icecream10", "icecream2"} \subseteq DOMAIN ws
                => /\ IndexIn(scan, "icecream1") > 0
                   /\ IndexIn(scan, "icecream10") = IndexIn(scan, "icecream1") + 1
                   /\ IndexIn(scan, "icecream2") = IndexIn(scan, "icecream1") + 2
          /\ op.name = "GetAllAssets" => (err = NoError /\ JSONparseArray(ret) = scan)

\* a scan of the nine seed records and icecream10, icecream10 second
C6_Witness ==
    /\ op.name = "GetAllAssets"
    /\ Len(JSONparseArray(ret)) = Cardinality(AllIds)
    /\ Get(JSONparseArray(ret)[1], "ID") = Str("icecream1")
    /\ Get(JSONparseArray(ret)[2], "ID") = Str("icecream10")
    /\ Get(JSONparseArray(ret)[3], "ID") = Str("icecream2")

(* --------------------------------- C7 ---------------------------------- *)

\* C7 (Delete removes exactly one key): after a successful DeleteAsset(id) the
\* key id is absent (ReadAsset(id) throws NotFound, AssetExists(id) is false,
\* GetAllAssets has no entry for it) and every other key is there with the
\* bytes it had.
C7_DeleteExactlyOne ==
    /\ [](Succeeded("DeleteAsset")
            => /\ op.args[1] \notin DOMAIN ws
               /\ ReadAsset(Ctx, op.args[1]).err = NotFound(op.args[1])
               /\ ~AssetExists(Ctx, op.args[1])
               /\ \A scan \in {ScanNow} :
                     /\ Len(scan) = Cardinality(DOMAIN ws)
                     /\ \A i \in 1..Len(scan) : Get(scan[i], "ID") # Str(op.args[1]))
    /\ [][ (op'.name = "DeleteAsset" /\ err' = NoError)
           => /\ op'.args[1] \in DOMAIN ws
              /\ DOMAIN ws' = DOMAIN ws \ {op'.args[1]}
              /\ \A k \in DOMAIN ws' : ws'[k] = ws[k] ]_vars

\* a key was deleted from a store that holds other records
C7_Witness ==
    /\ Succeeded("DeleteAsset")
    /\ op.args[1] \notin DOMAIN ws
    /\ writes = <<[call |-> "deleteState", key |-> op.args[1], value |-> <<>>]>>
    /\ Cardinality(DOMAIN ws) >= 2

(* --------------------------------- C8 ---------------------------------- *)

ReadingOrChanging == {"ReadAsset", "UpdateAsset", "DeleteAsset", "TransferAsset"}

\* the handler `name` run on id against the context ctx
Handle(ctx, name, id) ==
    CASE name = "ReadAsset"     -> ReadAsset(ctx, id)
      [] name = "UpdateAsset"   -> UpdateAsset(ctx, id, "vanilla")
      [] name = "DeleteAsset"   -> DeleteAsset(ctx, id)
      [] name = "TransferAsset" -> TransferAsset(ctx, id, "Maria")

\* the context of the current world state with a zero-length value under id
ZeroLengthAt(id) ==
    [state  |-> [k \in DOMAIN ws \cup {id} |-> IF k = id THEN <<>> ELSE ws[k]],
     writes |-> <<>>]

\* C8 (NotFound leaves the store untouched): ReadAsset, UpdateAsset, DeleteAsset
\* and TransferAsset on a key that is absent throw 'The asset id does not
\* exist', make no putState or deleteState call and leave the world state as it
\* was; the handlers do the same against a store that holds a zero-length value
\* under the key.
C8_NotFoundNoWrite ==
    /\ [][ (op'.name \in ReadingOrChanging /\ Len(getState(Ctx, op'.args[1])) = 0)
           => /\ err' = NotFound(op'.args[1])
              /\ writes' = <<>>
              /\ ws' = ws ]_vars
    /\ [](\A id \in AllIds, name \in ReadingOrChanging :
             LET r == Handle(ZeroLengthAt(id), name, id)
             IN  /\ r.err = NotFound(id)
                 /\ r.ctx = ZeroLengthAt(id))

\* each of the four was refused on an absent key of a store that holds records
C8_Witness ==
    /\ op.name = "TransferAsset"
    /\ err = NotFound(op.args[1])
    /\ op.args[1] \notin DOMAIN ws
    /\ writes = <<>>
    /\ ws # << >>

(* --------------------------------- C9 ---------------------------------- *)

\* C9 (CreateAsset returns the canonical text): the text a successful
\* CreateAsset(id, ...) returns has its keys in ascending order and is
\* identical to the bytes stored under id and to what ReadAsset(id) returns
\* right after.
C9_CreateReturnsCanonical ==
    Succeeded("CreateAsset") =>
        /\ KeysAscending(ret)
        /\ ret = ws[op.args[1]]
        /\ ret = ReadAsset(Ctx, op.args[1]).ret

(* --------------------------------- C10 --------------------------------- *)

\* C10 (Determinism of the canonical encoding): whatever the order in which
\* the fields of a record were inserted into the object, the bytes handed to
\* putState have their keys in ascending order and are identical to the bytes
\* the contract stored for the same record (the records hold scalars only, so
\* there is one nesting level).
C10_DeterministicEncoding ==
    persisted # <<>> =>
        /\ persisted = logical.value
        /\ KeysAscending(persisted)
        /\ FieldsOf(persisted) = FieldsOf(logical.value)

\* a seed record built with docType inserted first and ID last, encoded to the
\* bytes InitLedger stored
C10_Witness ==
    /\ persisted # <<>>
    /\ persisted = logical.value
    /\ Len(object) = Cardinality(FieldNames)
    /\ object[1].key = "docType"
    /\ object[Len(object)].key = "ID"

(* --------------------------------- C11 --------------------------------- *)

\* the keys of the seed records
SeedIds == {Get(assets[i], "ID").text : i \in 1..Len(assets)}

\* C11 (Seed scenario): InitLedger on an empty store throws nothing and leaves
\* exactly the nine keys icecream1..icecream9, each with a value; a
\* CreateAsset('icecream10','vanilla','small','Carmen','sugar','6000') on that
\* store throws nothing (no AlreadyExists) and adds the one key icecream10; a
\* GetAllAssets issued then returns exactly 10 entries, all of them records,
\* one for each of the ten keys.  main() goes through exactly these steps.
C11_SeedScenario ==
    /\ [][ (ws = << >> /\ op'.name = "InitLedger")
           => /\ err' = NoError
              /\ DOMAIN ws' = SeedIds
              /\ Cardinality(DOMAIN ws') = 9
              /\ \A k \in SeedIds : Len(ws'[k]) > 0 ]_vars
    /\ [][ (DOMAIN ws = SeedIds /\ op' = mainScript[3])
           => /\ err' = NoError
              /\ DOMAIN ws' = SeedIds \cup {"icecream10"}
              /\ \A k \in SeedIds : ws'[k] = ws[k] ]_vars
    /\ []( (op = mainScript[3] /\ err = NoError /\ SeedIds \subseteq DOMAIN ws)
            => /\ GetAllAssets(Ctx).err = NoError
               /\ \A scan \in {ScanNow} :
                     /\ Len(scan) = 10
                     /\ {Get(scan[i], "ID").text : i \in 1..Len(scan)} = AllIds )
    /\ []( (~others /\ pc = 1) => (Succeeded("InitLedger") /\ DOMAIN ws = SeedIds) )
    /\ []( (~others /\ pc = 3) => (op = mainScript[3] /\ err = NoError) )

\* main() has seeded the ledger and created icecream10, and a scan has 10 entries
C11_Witness ==
    /\ ~others
    /\ pc = 3
    /\ op = mainScript[3]
    /\ err = NoError
    /\ DOMAIN ws = SeedIds \cup {"icecream10"}
    /\ Len(JSONparseArray(GetAllAssets(Ctx).ret)) = 10

(* --------------------------------- C12 --------------------------------- *)

\* C12 (docType invariant): in every state reached by InitLedger, CreateAsset,
\* UpdateAsset, TransferAsset and DeleteAsset calls, every record stored in the
\* world state has the field docType with the value 'asset'.
C12_DocTypeInvariant ==
    \A k \in DOMAIN ws : Get(RecordAt(ws, k), "docType") = Str("asset")

(* --------------------------------- C13 --------------------------------- *)

\* the bytes the CreateAsset call c stores
BytesCreated(c) == Invoke(NewContext(<< >>), c).ctx.writes[1].value

\* transaction t runs `name` on id and has got past its reads without a throw
PastReads(t, name, id) ==
    /\ txs[t].call.name = name
    /\ txs[t].call.args[1] = id
    /\ txs[t].at \in {"putState", "deleteState", "done"}
    /\ txs[t].err = NoError

\* C13 (Create is not atomic against concurrent writers): with the steps of two
\* transactions interleaved and no conflict detection in the store, a
\* CreateAsset that found its id absent goes on to putState whatever has been
\* written meanwhile: its write step throws nothing (no AlreadyExists), stores
\* its record under id and returns.  So when two CreateAsset calls for the same
\* id have both passed the existence check, both write, neither throws, and
\* the value stored under id is the record of the one whose putState ran last
\* (as long as no third transaction has written since).
C13_CreateNotAtomic ==
    /\ [][ \A t \in Txs :
              (At(t, "CreateAsset", "putState") /\ txs'[t] # txs[t])
                  => /\ txs'[t].at = "done"
                     /\ txs'[t].err = NoError
                     /\ ws'[txs[t].call.args[1]] = BytesCreated(txs[t].call)
                     /\ lastWrite'.tx = t ]_vars
    /\ [](\A t, u \in Txs, id \in Ids :
             (/\ t # u
              /\ PastReads(t, "CreateAsset", id)
              /\ PastReads(u, "CreateAsset", id)
              /\ txs[t].at = "done"
              /\ txs[u].at = "done"
              /\ lastWrite.tx \in {t, u})
                        => /\ lastWrite.call = "putState"
                           /\ lastWrite.key = id
                           /\ ws[id] = lastWrite.value
                           /\ ws[id] = BytesCreated(txs[lastWrite.tx].call))

\* two CreateAsset calls for one id with different fields have both returned
\* without a throw, and the record of tx1, whose putState ran last, is stored
C13_Witness ==
    /\ txs["tx1"].call.name = "CreateAsset"
    /\ txs["tx2"].call.name = "CreateAsset"
    /\ txs["tx1"].call.args[1] = txs["tx2"].call.args[1]
    /\ txs["tx1"].call # txs["tx2"].call
    /\ txs["tx1"].at = "done"
    /\ txs["tx2"].at = "done"
    /\ txs["tx1"].err = NoError
    /\ txs["tx2"].err = NoError
    /\ txs["tx3"].at = "idle"
    /\ lastWrite.tx = "tx1"
    /\ ws[txs["tx1"].call.args[1]] = BytesCreated(txs["tx1"].call)
    /\ ws[txs["tx1"].call.args[1]] # BytesCreated(txs["tx2"].call)

(* --------------------------------- C14 --------------------------------- *)

\* the bytes the call c (UpdateAsset or TransferAsset) stores when the value it
\* read under its key was `read`
BytesModified(c, read) ==
    Invoke(NewContext([k \in {c.args[1]} |-> read]), c).ctx.writes[1].value

\* C14 (Unprotected read-modify-write): with the steps of the transactions
\* interleaved and no conflict detection in the store, an UpdateAsset or
\* TransferAsset that has read the record under id writes the record built
\* from what it read, whatever the store holds under id by then: its write
\* step throws nothing, touches no other key, and puts the key back when a
\* DeleteAsset removed it after the read.  So when UpdateAsset(id, flavor) and
\* TransferAsset(id, newOwner) have read the same value and both have written,
\* the record left by the later write has that transaction's modification and
\* not the other's: Client is still the one read after a last write by
\* UpdateAsset, Flavor is still the one read after a last write by
\* TransferAsset.
C14_UnprotectedReadModifyWrite ==
    /\ [][ \A t \in Txs :
              (/\ txs[t].call.name \in {"UpdateAsset", "TransferAsset"}
               /\ txs[t].at = "putState"
               /\ txs'[t] # txs[t])
                  => /\ txs'[t].at = "done"
                     /\ txs'[t].err = NoError
                     /\ DOMAIN ws' = DOMAIN ws \cup {txs[t].call.args[1]}
                     /\ ws'[txs[t].call.args[1]] = BytesModified(txs[t].call, txs[t].read)
                     /\ \A k \in DOMAIN ws \ {txs[t].call.args[1]} : ws'[k] = ws[k]
                     /\ lastWrite'.tx = t ]_vars
    /\ [](\A t, u \in Txs, id \in Ids :
             (/\ PastReads(t, "UpdateAsset", id)
              /\ PastReads(u, "TransferAsset", id)
              /\ txs[t].at = "done"
              /\ txs[u].at = "done"
              /\ txs[t].read = txs[u].read
              /\ lastWrite.tx \in {t, u})
                 => /\ id \in DOMAIN ws
                    /\ lastWrite.tx = t
                          => /\ Get(RecordAt(ws, id), "Flavor") = Str(txs[t].call.args[2])
                             /\ Get(RecordAt(ws, id), "Client")
                                   = Get(JSONparse(txs[u].read), "Client")
                    /\ lastWrite.tx = u
                          => /\ Get(RecordAt(ws, id), "Client") = Str(txs[u].call.args[2])
                             /\ Get(RecordAt(ws, id), "Flavor")
                                   = Get(JSONparse(txs[t].read), "Flavor"))

\* on the seeded ledger UpdateAsset('icecream1','vanilla'),
\* TransferAsset('icecream1','Maria') and DeleteAsset('icecream1') have all
\* returned without a throw; the key is there again, written last by the
\* UpdateAsset from what it read before the delete, and the transfer is lost
C14_Witness ==
    /\ txs["tx1"].call = Call("UpdateAsset", <<"icecream1", "vanilla">>)
    /\ txs["tx2"].call = Call("TransferAsset", <<"icecream1", "Maria">>)
    /\ txs["tx3"].call = Call("DeleteAsset", <<"icecream1">>)
    /\ \A t \in Txs : txs[t].at = "done" /\ txs[t].err = NoError
    /\ txs["tx2"].ret = Str("Paola")
    /\ lastWrite.tx = "tx1"
    /\ "icecream1" \in DOMAIN ws
    /\ Get(RecordAt(ws, "icecream1"), "Flavor") = Str("vanilla")
    /\ Get(RecordAt(ws, "icecream1"), "Client") = Str("Paola")

(* --------------------------------- C15 --------------------------------- *)

\* the entry of a scan for the stored value v, as the client decodes it: the
\* record, or the raw text as a string when v does not parse
EntryFor(v) ==
    IF IsJSONObject(v) THEN JSONparse(v) ELSE [type |-> "text", text |-> v]

\* C15 (Lenient scan): also when the store holds values that do not parse,
\* placed there by something other than the contract, GetAllAssets throws
\* nothing and returns one entry per key in ascending key order: the entry for
\* the key with i-1 smaller keys is entry i, and it is the raw stored text for
\* a value that does not parse and the decoded record for every other.
C15_LenientScan ==
    /\ GetAllAssets(Ctx).err = NoError
    /\ \A scan \in {ScanNow} :
          /\ Len(scan) = Cardinality(DOMAIN ws)
          /\ \A k \in DOMAIN ws :
                scan[Cardinality({o \in DOMAIN ws : StrLess(o, k)}) + 1] = EntryFor(ws[k])
          /\ op.name = "GetAllAssets" => (err = NoError /\ JSONparseArray(ret) = scan)

\* a scan of ten keys where the value under icecream10 does not parse: its raw
\* text is the second entry, between the records of icecream1 and icecream2,
\* and the records of the keys after it follow
C15_Witness ==
    /\ op.name = "GetAllAssets"
    /\ err = NoError
    /\ DOMAIN ws = AllIds
    /\ ~IsJSONObject(ws["icecream10"])
    /\ \A k \in AllIds \ {"icecream10"} : IsJSONObject(ws[k])
    /\ Len(JSONparseArray(ret)) = 10
    /\ Get(JSONparseArray(ret)[1], "ID") = Str("icecream1")
    /\ JSONparseArray(ret)[2] = [type |-> "text", text |-> ws["icecream10"]]
    /\ Get(JSONparseArray(ret)[3], "ID") = Str("icecream2")
    /\ Get(JSONparseArray(ret)[10], "ID") = Str("icecream9")

(* --------------------------------- C16 --------------------------------- *)

\* the field names of a record
NamesOf(obj) == {obj[i].key : i \in 1..Len(obj)}

\* C16 (Transfer changes exactly one field): a successful
\* TransferAsset(id, newOwner) makes exactly one write, a putState to key id;
\* the record it stores has Client = newOwner and every other field of the
\* record stored before (ID, Flavor, Size, Cone, Value, and docType when it was
\* there) with its value, no field more and none less; every other key keeps
\* its bytes and no key is added or removed.
C16_TransferChangesOneField ==
    [][ (op'.name = "TransferAsset" /\ err' = NoError)
        => LET id == op'.args[1]
           IN  /\ id \in DOMAIN ws
               /\ writes' = <<[call |-> "putState", key |-> id, value |-> ws'[id]]>>
               /\ DOMAIN ws' = DOMAIN ws
               /\ \A k \in DOMAIN ws \ {id} : ws'[k] = ws[k]
               /\ Get(RecordAt(ws', id), "Client") = Str(op'.args[2])
               /\ NamesOf(RecordAt(ws', id)) = NamesOf(RecordAt(ws, id))
               /\ \A k \in NamesOf(RecordAt(ws, id)) \ {"Client"} :
                      Get(RecordAt(ws', id), k) = Get(RecordAt(ws, id), k) ]_vars

\* a seed record was transferred from Paola to someone else: docType and the
\* numeric Value are still there, and the other eight seed records too
C16_Witness ==
    /\ Succeeded("TransferAsset")
    /\ op.args[1] = "icecream1"
    /\ ret = Str("Paola")
    /\ writes = <<[call |-> "putState", key |-> "icecream1", value |-> ws["icecream1"]]>>
    /\ Get(RecordAt(ws, "icecream1"), "Client") = Str(op.args[2])
    /\ Get(RecordAt(ws, "icecream1"), "docType") = Str("asset")
    /\ Get(RecordAt(ws, "icecream1"), "Value") = Num("10000")
    /\ NamesOf(RecordAt(ws, "icecream1")) = FieldNames
    /\ SeedIds \subseteq DOMAIN ws

(* --------------------------------- C17 --------------------------------- *)

\* C17 (No soft-delete, no implicit creation): with the transactions run one
\* at a time, a CreateAsset(id, f') on an absent id, in particular right after
\* a successful DeleteAsset(id), throws nothing, and a ReadAsset(id) then
\* returns exactly the record of f' (nothing of a record deleted before); a key
\* becomes present only in a CreateAsset of that key or an InitLedger step;
\* UpdateAsset and TransferAsset on an absent key throw NotFound and leave the
\* store as it was.
C17_NoSoftDeleteNoImplicitCreation ==
    /\ [][ (op'.name = "CreateAsset"
              /\ \/ op'.args[1] \notin DOMAIN ws
                 \/ Succeeded("DeleteAsset") /\ op.args[1] = op'.args[1])
           => /\ err' = NoError
              /\ ws'[op'.args[1]] = BytesCreated(op')
              /\ ReadAsset(NewContext(ws'), op'.args[1]) =
                    Return(NewContext(ws'), BytesCreated(op')) ]_vars
    /\ [][ \A k \in DOMAIN ws' \ DOMAIN ws :
              \/ op'.name = "InitLedger" /\ k \in SeedIds
              \/ op'.name = "CreateAsset" /\ op'.args[1] = k ]_vars
    /\ [][ (op'.name \in {"UpdateAsset", "TransferAsset"} /\ op'.args[1] \notin DOMAIN ws)
           => /\ err' = NotFound(op'.args[1])
              /\ ws' = ws ]_vars

\* icecream1 was seeded, deleted and created again: the last transaction is a
\* successful CreateAsset('icecream1', ...) on a ledger InitLedger has filled,
\* and the record read back is the one of the new fields, the seed record's
\* flavor, owner and numeric Value gone
C17_Witness ==
    /\ Succeeded("CreateAsset")
    /\ op.args[1] = "icecream1"
    /\ SeedIds \subseteq DOMAIN ws
    /\ Get(RecordAt(ws, "icecream2"), "docType") = Str("asset")
    /\ ReadAsset(Ctx, "icecream1").ret = BytesCreated(op)
    /\ Get(ReadBack("icecream1"), "Flavor") = Str(op.args[2])
    /\ Get(ReadBack("icecream1"), "Client") = Str(op.args[4])
    /\ Get(ReadBack("icecream1"), "Value") = Str(op.args[6])

(* --------------------------------- C18 --------------------------------- *)

\* C18 (Key/ID agreement): in every state reached by transactions run one at a
\* time, every value in the world state is a record whose ID field is the key
\* it is stored under; so no two stored records have the same ID.
C18_KeyIdAgreement ==
    /\ \A k \in DOMAIN ws :
          /\ IsJSONObject(ws[k])
          /\ Get(RecordAt(ws, k), "ID") = Str(k)
    /\ \A k, l \in DOMAIN ws :
          k # l => Get(RecordAt(ws, k), "ID") # Get(RecordAt(ws, l), "ID")

\* ten records, icecream10 created by CreateAsset and icecream1 rewritten by
\* UpdateAsset, each with its key as ID
C18_Witness ==
    /\ DOMAIN ws = AllIds
    /\ Succeeded("UpdateAsset")
    /\ op.args[1] = "icecream1"
    /\ Get(RecordAt(ws, "icecream1"), "ID") = Str("icecream1")
    /\ Get(RecordAt(ws, "icecream10"), "ID") = Str("icecream10")
    /\ Get(RecordAt(ws, "icecream10"), "docType") = Undefined

(* --------------------------------- C19 --------------------------------- *)

\* C19 (InitLedger is an unconditional, idempotent reseed): an InitLedger run
\* in any reachable state throws nothing (no AlreadyExists), makes nine
\* putState calls and leaves under each of icecream1..icecream9 the fixed seed
\* record, whatever was stored or deleted there before; every other key
\* (icecream10) keeps its bytes and no other key is added or removed; an
\* InitLedger run right after one leaves the store as it is.
C19_InitLedgerReseeds ==
    /\ [][ op'.name = "InitLedger"
           => /\ err' = NoError
              /\ Len(writes') = 9
              /\ \A i \in 1..Len(writes') : writes'[i].call = "putState"
              /\ DOMAIN ws' = DOMAIN ws \cup SeedIds
              /\ \A k \in SeedIds : ws'[k] = Seeded[k]
              /\ \A k \in DOMAIN ws \ SeedIds : ws'[k] = ws[k]
              /\ op.name = "InitLedger" => ws' = ws ]_vars
    /\ [](Succeeded("InitLedger") => InitLedger(Ctx).ctx.state = ws)

\* another client has run InitLedger on a ledger that held icecream10 and
\* eight of the seed records, with icecream1 changed or deleted: icecream1 is
\* the one key whose bytes InitLedger changed, the nine seed records are as
\* InitLedger writes them and icecream10 is still there
C19_Witness ==
    /\ Succeeded("InitLedger")
    /\ others
    /\ rewritten = {"icecream1"}
    /\ DOMAIN ws = AllIds
    /\ \A k \in SeedIds : ws[k] = Seeded[k]
    /\ Get(RecordAt(ws, "icecream1"), "Client") = Str("Paola")
    /\ Get(RecordAt(ws, "icecream10"), "ID") = Str("icecream10")

====
